---- MODULE Spec2Model ----
(***************************************************************************)
(* Verification model of the notebook/kernel state tracking of the         *)
(* extension: NotebookWatcher (variablesView/notebookWatcher.ts), the      *)
(* interactive window provider it reads, and HoverProvider                 *)
(* (editor-integration/hoverProvider.ts).                                  *)
(*                                                                         *)
(* JavaScript `undefined` is the string Undefined where a Uri, a notebook  *)
(* or a document is expected and the number UndefinedNumber where a        *)
(* number is expected.  An async handler is split at its await: the part   *)
(* before the await is one step, the continuation is queued in `pending`   *)
(* (the microtask queue, first in first out) and resumed by a later step.  *)
(***************************************************************************)
EXTENDS Integers, Sequences, FiniteSets

\* ------------------------------------------------------------------ bounds
\* Execution orders an event may carry are 0..MaxOrder.
MaxOrder == 2
\* Continuations that may wait in the microtask queue at once.
MaxPending == 2
\* Interactive windows the provider may create in one run.
MaxWindows == 2
\* Calls of provideHover that may be in flight at once.
MaxHovers == 2
\* Milliseconds by which the clock of a hover call advances in one step.
TickMs == 100

\* --------------------------------------------------------------- constants
\* The delay of provideHover's timeoutHandler: sleep(300).
SleepMs == 300

\* ------------------------------------------------------------------ values
Undefined == "undefined"
UndefinedNumber == 0 - 1

\* Files of notebook editors.  The first two name the same file on a file
\* system that ignores case.
NotebookFiles == {"/nb/a.ipynb", "/nb/A.ipynb"}
\* A notebook document that is not a Jupyter notebook.
OtherNotebook == "/nb/other.book"
\* notebookUri of the i-th interactive window the provider creates.
InteractiveNotebookUris == <<"interactive-1", "interactive-2", "interactive-3", "interactive-4">>
InteractiveUris == {InteractiveNotebookUris[i] : i \in 1..MaxWindows}
\* Text documents that may own an interactive window.
TextDocuments == {"/src/x.py"}
\* Owners of an interactive window: a text document, or none.
Owners == TextDocuments \cup {Undefined}
\* Uris of Jupyter notebook documents.
Resources == NotebookFiles \cup InteractiveUris
ExecutionOrders == 0..MaxOrder

\* INotebookEditor: its file and its notebook (undefined until loaded).
NoEditor == [file |-> Undefined, notebook |-> Undefined]
Editors ==
    UNION {{[file |-> f, notebook |-> n] : n \in {Undefined, f}} : f \in NotebookFiles}

\* NotebookCellExecutionState
Idle == "Idle"
Executing == "Executing"
\* KernelState
executed == "executed"
restarted == "restarted"

VARIABLES
    executionCountTracker,  \* NotebookWatcher._executionCountTracker
    activeEditor,           \* notebookEditorProvider.activeEditor
    activeTextEditor,       \* window.activeTextEditor's document uri
    windows,                \* interactiveWindowProvider: owner -> notebookUri
    created,                \* number of interactive windows created so far
    kernelNotebooks,        \* notebook documents whose kernel has an INotebook
    pending,                \* continuations waiting at an await
    fired,                  \* what the last step fired or returned
    lastOrderSeen,          \* history: per path, last order seen since restart/close
    disposed,               \* history: notebookUris of disposed windows
    runFiles,               \* HoverProvider.runFiles
    hoverProviderRegistration, \* HoverProvider.hoverProviderRegistration
    preExecuteOutcome,      \* what the last call of preExecute did and how it settled
    failedFiles,            \* history: files whose preExecute failed to register
    hovers                  \* the calls of provideHover, by slot

watcherVars == <<executionCountTracker, activeEditor, activeTextEditor, windows, created,
                 kernelNotebooks, pending, fired, lastOrderSeen, disposed>>
hoverVars == <<runFiles, hoverProviderRegistration, preExecuteOutcome, failedFiles, hovers>>
vars == <<watcherVars, hoverVars>>

\* --------------------------------------------------------- records of a step
NoEvent == [event |-> "none", notebook |-> Undefined, executionCount |-> UndefinedNumber]

\* A continuation: the handler that awaits, the event it closed over and the
\* value of the awaited isActiveNotebookEvent.  The continuation of handleRestart
\* reads nothing of its event, and a continuation whose awaited value is false
\* reads nothing at all: what is never read is left out.
Continuation(op, resource, order, active) ==
    IF op = "execute" /\ active
    THEN [op |-> op, resource |-> resource, order |-> order, active |-> active]
    ELSE [op |-> op, resource |-> Undefined, order |-> UndefinedNumber, active |-> active]

\* ------------------------------------------------------------- file system
\* IFileSystem.arePathsSame: file paths are compared after normalising case,
\* other uris by their text.
NormCase(uri) == IF uri = "/nb/A.ipynb" THEN "/nb/a.ipynb" ELSE uri
arePathsSame(uri1, uri2) == NormCase(uri1) = NormCase(uri2)

\* ------------------------------------------------- interactive window provider
\* IInteractiveWindowProvider.get(owner): the window of that owner, if any.
ProviderGet(owner) == windows[owner]

\* NotebookWatcher.getActiveInteractiveWindow: the notebookUri of the window
\* obtained for the active text editor's document, or undefined.
getActiveInteractiveWindow ==
    IF activeTextEditor = Undefined THEN Undefined ELSE ProviderGet(activeTextEditor)

\* NotebookWatcher.getActiveInteractiveWindowNotebook
getActiveInteractiveWindowNotebook ==
    LET interactiveWindow == getActiveInteractiveWindow
    IN  IF interactiveWindow \in kernelNotebooks THEN interactiveWindow ELSE Undefined

\* ------------------------------------------------------ execution-count tracker
\* Positions of the entries whose uri is the same path as uri.
Matching(uri) ==
    {i \in DOMAIN executionCountTracker : arePathsSame(uri, executionCountTracker[i].uri)}
First(S) == CHOOSE i \in S : \A j \in S : i <= j

\* NotebookWatcher.getExecutionCount: Array.find, the first matching entry's
\* count, or undefined.
getExecutionCount(uri) ==
    IF Matching(uri) = {} THEN UndefinedNumber
    ELSE executionCountTracker[First(Matching(uri))].executionCount

\* NotebookWatcher.updateExecutionCount: the tracker after the update.
updateExecutionCountAlwaysPushes(uri, newValue) ==
    Append(executionCountTracker, [uri |-> uri, executionCount |-> newValue])
updateExecutionCount(uri, newValue) ==
    IF Matching(uri) = {}
    THEN Append(executionCountTracker, [uri |-> uri, executionCount |-> newValue])
    ELSE [executionCountTracker EXCEPT ![First(Matching(uri))].executionCount = newValue]

\* NotebookWatcher.deleteExecutionCount: the tracker after the delete.
deleteExecutionCount(uri) ==
    LET keep(value) == ~arePathsSame(uri, value.uri)
    IN  SelectSeq(executionCountTracker, keep)

\* ------------------------------------------------------------------ getters
\* NotebookWatcher.activeNotebook
activeNotebook ==
    IF activeEditor # NoEditor /\ activeEditor.notebook # Undefined
    THEN activeEditor.notebook
    ELSE getActiveInteractiveWindowNotebook

\* NotebookWatcher.activeNotebookExecutionCount
activeNotebookExecutionCountWindowFirst ==
    LET activeInteractiveWindow == getActiveInteractiveWindow
        activeNotebookOrInteractiveWindow ==
            IF activeInteractiveWindow # Undefined THEN activeInteractiveWindow
            ELSE activeEditor.file
    IN  IF activeNotebookOrInteractiveWindow # Undefined
        THEN getExecutionCount(activeNotebookOrInteractiveWindow)
        ELSE UndefinedNumber
activeNotebookExecutionCount ==
    LET activeInteractiveWindow == getActiveInteractiveWindow
        activeNotebookOrInteractiveWindow ==
            IF activeEditor # NoEditor THEN activeEditor.file ELSE activeInteractiveWindow
    IN  IF activeNotebookOrInteractiveWindow # Undefined
        THEN getExecutionCount(activeNotebookOrInteractiveWindow)
        ELSE UndefinedNumber

\* NotebookWatcher.isNonSilentExecution: `executionOrder &&` is false for an
\* undefined order and for the order 0.
isNonSilentExecution(state, hasCell, order, silent) ==
    /\ state = executed
    /\ hasCell
    /\ order # UndefinedNumber /\ order # 0
    /\ ~silent

\* NotebookWatcher.isActiveNotebookEvent
isActiveNotebookEvent(resource) ==
    \/ activeEditor # NoEditor /\ arePathsSame(activeEditor.file, resource)
    \/  LET activeInteractiveWindow == getActiveInteractiveWindow
        IN  /\ activeInteractiveWindow # Undefined
            /\ arePathsSame(activeInteractiveWindow, resource)

\* isJupyterNotebook (notebook/helpers/helpers): the document's notebook type
\* is the Jupyter one.
isJupyterNotebook(notebook) == notebook \in Resources

\* Paths of the resources, as the file system compares them.
Paths == {NormCase(u) : u \in Resources}

\* Jupyter notebook documents that are open: the notebook files and the
\* notebooks of the interactive windows that exist.
OpenNotebooks == NotebookFiles \cup {windows[o] : o \in {w \in Owners : windows[w] # Undefined}}

\* --------------------------------------------------------------- HoverProvider
\* Identifiers.EmptyFileName
EmptyFileName == "2DB9B899-6519-4E1B-88B0-FA728A274115"
\* cell.file of the cells handed to preExecute; "" is a cell without a file.
CellFiles == {"", EmptyFileName, "/src/x.py", "/src/X.py", "/src/y.py", "/src/z.py"}
\* String.toLocaleLowerCase
toLocaleLowerCase(file) == IF file = "/src/X.py" THEN "/src/x.py" ELSE file

\* preExecute before its first call.
NoOutcome == [file |-> "", silent |-> FALSE, attempted |-> FALSE, threw |-> FALSE,
              logged |-> FALSE, settled |-> "none"]

\* HoverProvider.preExecute, the condition of its if.
preExecuteTracks(file, silent) == ~silent /\ file # "" /\ file # EmptyFileName

\* HoverProvider.preExecute: `size !== this.runFiles.size` after the add.
preExecuteInitializes(file, silent) ==
    /\ preExecuteTracks(file, silent)
    /\ Cardinality(runFiles \cup {toLocaleLowerCase(file)}) # Cardinality(runFiles)

\* HoverProvider.initializeHoverProvider: whether it calls registerHoverProvider.
initializeHoverProvider == hoverProviderRegistration = Undefined

\* HoverProvider.preExecute, its try/catch: whether traceError is called and
\* how the call settles, given that registerHoverProvider threw or not.
preExecuteUncaught(threw) ==
    [logged |-> FALSE, settled |-> IF threw THEN "rejected" ELSE "resolved"]
preExecuteCatch(threw) ==
    [logged |-> threw, settled |-> "resolved"]

\* INotebookExecutionLogger.preExecute -> HoverProvider.preExecute.
\* registerThrows: vscode.languages.registerHoverProvider throws when called.
PreExecute(file, silent, registerThrows) ==
    LET attempted == preExecuteInitializes(file, silent) /\ initializeHoverProvider
        threw == attempted /\ registerThrows
    IN  /\ runFiles' = IF preExecuteTracks(file, silent)
                       THEN runFiles \cup {toLocaleLowerCase(file)}
                       ELSE runFiles
        /\ hoverProviderRegistration' =
                IF attempted /\ ~threw THEN "registered" ELSE hoverProviderRegistration
        /\ preExecuteOutcome' =
                [file |-> file, silent |-> silent, attempted |-> attempted, threw |-> threw,
                 logged |-> preExecuteCatch(threw).logged,
                 settled |-> preExecuteCatch(threw).settled]
        /\ failedFiles' = IF threw THEN failedFiles \cup {toLocaleLowerCase(file)}
                          ELSE failedFiles
        /\ UNCHANGED <<hovers, watcherVars>>

\* HoverProvider.onKernelRestarted
OnKernelRestarted ==
    /\ runFiles' = {}
    /\ preExecuteOutcome' = NoOutcome
    /\ UNCHANGED <<hoverProviderRegistration, failedFiles, hovers, watcherVars>>

\* A call of provideHover: the clock of its sleep, the promise of its
\* timeoutHandler, the promise of getVariableHover, the promise Promise.race
\* returned, and (history) which of the two settled first.
NoHover == [state |-> "idle", elapsed |-> 0, timeout |-> "pending", lookup |-> "pending",
            result |-> "pending", first |-> "none"]

\* Promise.race: the returned promise settles as the first of its promises to
\* settle, and a settled promise never changes.
raceLastWins(result, value) == value
race(result, value) == IF result = "pending" THEN value ELSE result

\* HoverProvider.provideHover: both promises are created and raced.
ProvideHover(id) ==
    /\ hovers[id].state = "idle" \/ hovers[id].result # "pending"
    /\ hovers' = [hovers EXCEPT ![id] = [NoHover EXCEPT !.state = "running"]]
    /\ UNCHANGED <<runFiles, hoverProviderRegistration, preExecuteOutcome, failedFiles,
                   watcherVars>>

\* Time passes for a call; its timeoutHandler resolves to null once sleep(300)
\* is over.
Tick(id) ==
    /\ hovers[id].state = "running"
    /\ hovers[id].timeout = "pending"
    /\ LET elapsed == hovers[id].elapsed + TickMs
       IN  hovers' = [hovers EXCEPT ![id] =
                IF elapsed >= SleepMs
                THEN [@ EXCEPT !.elapsed = elapsed, !.timeout = "null",
                               !.result = race(@, "null"),
                               !.first = IF @ = "none" THEN "timeout" ELSE @]
                ELSE [@ EXCEPT !.elapsed = elapsed]]
    /\ UNCHANGED <<runFiles, hoverProviderRegistration, preExecuteOutcome, failedFiles,
                   watcherVars>>

\* getVariableHover settles: with a hover, with null (no word, no matching
\* notebook, no attributes) or rejected (the variable provider failed, or the
\* token was cancelled).  A variable provider that never replies never takes
\* this step.
LookupSettles(id, outcome) ==
    /\ hovers[id].state = "running"
    /\ hovers[id].lookup = "pending"
    /\ hovers' = [hovers EXCEPT ![id] =
            [@ EXCEPT !.lookup = outcome, !.result = race(@, outcome),
                      !.first = IF @ = "none" THEN "lookup" ELSE @]]
    /\ UNCHANGED <<runFiles, hoverProviderRegistration, preExecuteOutcome, failedFiles,
                   watcherVars>>

\* ------------------------------------------------------------------ Init
Init ==
    /\ executionCountTracker = <<>>
    /\ activeEditor = NoEditor
    /\ activeTextEditor = Undefined
    /\ windows = [o \in Owners |-> Undefined]
    /\ created = 0
    /\ kernelNotebooks = {}
    /\ pending = <<>>
    /\ fired = NoEvent
    /\ lastOrderSeen = [p \in Paths |-> UndefinedNumber]
    /\ disposed = {}
    /\ runFiles = {}
    /\ hoverProviderRegistration = Undefined
    /\ preExecuteOutcome = NoOutcome
    /\ failedFiles = {}
    /\ hovers = [id \in 1..MaxHovers |-> NoHover]

\* ------------------------------------------------------------- NotebookWatcher
\* NotebookWatcher.handleExecute up to its await: the tracker is updated and
\* isActiveNotebookEvent is evaluated; the rest runs in ResumeContinuation.
handleExecute(resource, order, silent) ==
    IF isNonSilentExecution(executed, TRUE, order, silent)
    THEN /\ Len(pending) < MaxPending
         /\ executionCountTracker' =
                IF order # UndefinedNumber
                THEN updateExecutionCount(resource, order)
                ELSE executionCountTracker
         /\ pending' = Append(pending,
                Continuation("execute", resource, order, isActiveNotebookEvent(resource)))
    ELSE UNCHANGED <<executionCountTracker, pending>>

\* NotebookWatcher.handleRestart up to its await.
handleRestartKeepsCount(resource) ==
    /\ Len(pending) < MaxPending
    /\ executionCountTracker' = executionCountTracker
    /\ pending' = Append(pending,
            Continuation("restart", resource, UndefinedNumber, isActiveNotebookEvent(resource)))
handleRestart(resource) ==
    /\ Len(pending) < MaxPending
    /\ executionCountTracker' = deleteExecutionCount(resource)
    /\ pending' = Append(pending,
            Continuation("restart", resource, UndefinedNumber, isActiveNotebookEvent(resource)))

\* NotebookWatcher.activeEditorChanged: the event it fires.
activeEditorChangedWithoutCount(editor) ==
    [event |-> "onDidChangeActiveNotebook", notebook |-> editor.notebook,
     executionCount |-> UndefinedNumber]
activeEditorChanged(editor) ==
    IF editor # NoEditor
    THEN [event |-> "onDidChangeActiveNotebook", notebook |-> editor.notebook,
          executionCount |-> getExecutionCount(editor.file)]
    ELSE [event |-> "onDidChangeActiveNotebook", notebook |-> Undefined,
          executionCount |-> UndefinedNumber]

\* What a continuation fires when it resumes after its await.
resume(continuation) ==
    IF continuation.op = "execute"
    THEN IF continuation.active /\ continuation.order # UndefinedNumber
         THEN [event |-> "onDidExecuteActiveNotebook", notebook |-> Undefined,
               executionCount |-> continuation.order]
         ELSE NoEvent
    ELSE IF continuation.active
         THEN [event |-> "onDidRestartActiveNotebook", notebook |-> Undefined,
               executionCount |-> UndefinedNumber]
         ELSE NoEvent

\* notebooks.onDidChangeNotebookCellExecutionState ->
\* NotebookWatcher.onDidChangeNotebookCellExecutionState
CellExecutionStateChanged(notebook, state, order) ==
    /\ notebook \in OpenNotebooks \cup {OtherNotebook}
    /\ IF isJupyterNotebook(notebook) /\ state = Idle
       THEN handleExecute(notebook, order, FALSE)
       ELSE UNCHANGED <<executionCountTracker, pending>>
    /\ fired' = NoEvent
    /\ lastOrderSeen' =
            IF isJupyterNotebook(notebook) /\ state = Idle /\ order # UndefinedNumber
            THEN [lastOrderSeen EXCEPT ![NormCase(notebook)] = order]
            ELSE lastOrderSeen
    /\ UNCHANGED <<activeEditor, activeTextEditor, windows, created, kernelNotebooks, disposed,
                   hoverVars>>

\* notebookExtensibility.onKernelStateChange -> NotebookWatcher.kernelStateChanged
KernelStateChange(state, resource) ==
    /\ resource \in OpenNotebooks
    /\ IF state = restarted
       THEN handleRestart(resource)
       ELSE UNCHANGED <<executionCountTracker, pending>>
    /\ fired' = NoEvent
    /\ lastOrderSeen' =
            IF state = restarted
            THEN [lastOrderSeen EXCEPT ![NormCase(resource)] = UndefinedNumber]
            ELSE lastOrderSeen
    /\ UNCHANGED <<activeEditor, activeTextEditor, windows, created, kernelNotebooks, disposed,
                   hoverVars>>

\* kernelProvider.onDidRestartKernel -> the constructor's listener
DidRestartKernel(resource) ==
    /\ resource \in OpenNotebooks
    /\ handleRestart(resource)
    /\ fired' = NoEvent
    /\ lastOrderSeen' = [lastOrderSeen EXCEPT ![NormCase(resource)] = UndefinedNumber]
    /\ UNCHANGED <<activeEditor, activeTextEditor, windows, created, kernelNotebooks, disposed,
                   hoverVars>>

\* The continuation at the head of the microtask queue resumes.
ResumeContinuation ==
    /\ pending # <<>>
    /\ fired' = resume(Head(pending))
    /\ pending' = Tail(pending)
    /\ UNCHANGED <<executionCountTracker, activeEditor, activeTextEditor, windows, created,
                   kernelNotebooks, lastOrderSeen, disposed,
                   hoverVars>>

\* notebookEditorProvider.onDidCloseNotebookEditor -> NotebookWatcher.notebookEditorClosed
notebookEditorClosedKeepsCount(editor) ==
    /\ executionCountTracker' = executionCountTracker
    /\ fired' = NoEvent
    /\ lastOrderSeen' = [lastOrderSeen EXCEPT ![NormCase(editor.file)] = UndefinedNumber]
    /\ UNCHANGED <<activeEditor, activeTextEditor, windows, created, kernelNotebooks,
                   pending, disposed,
                   hoverVars>>
notebookEditorClosed(editor) ==
    /\ executionCountTracker' = deleteExecutionCount(editor.file)
    /\ fired' = NoEvent
    /\ lastOrderSeen' = [lastOrderSeen EXCEPT ![NormCase(editor.file)] = UndefinedNumber]
    /\ UNCHANGED <<activeEditor, activeTextEditor, windows, created, kernelNotebooks,
                   pending, disposed,
                   hoverVars>>

\* notebookEditorProvider.onDidChangeActiveNotebookEditor ->
\* NotebookWatcher.activeEditorChanged
ActiveNotebookEditorChanged(editor) ==
    /\ editor # activeEditor
    /\ activeEditor' = editor
    /\ fired' = activeEditorChanged(editor)
    /\ UNCHANGED <<executionCountTracker, activeTextEditor, windows, created,
                   kernelNotebooks, pending, lastOrderSeen, disposed,
                   hoverVars>>

\* window.activeTextEditor changes; NotebookWatcher subscribes to no event for it.
ActiveTextEditorChanged(document) ==
    /\ document # activeTextEditor
    /\ activeTextEditor' = document
    /\ fired' = NoEvent
    /\ UNCHANGED <<executionCountTracker, activeEditor, windows, created, kernelNotebooks,
                   pending, lastOrderSeen, disposed,
                   hoverVars>>

\* ------------------------------------------------- interactive window provider
\* IInteractiveWindowProvider.getOrCreate(owner): the owner's window, or a new
\* one with a notebookUri of its own.  `fired` holds the returned window.
GetOrCreate(owner) ==
    /\ IF ProviderGet(owner) # Undefined
       THEN /\ fired' = [NoEvent EXCEPT !.event = "getOrCreate", !.notebook = ProviderGet(owner)]
            /\ UNCHANGED <<windows, created,
                   hoverVars>>
       ELSE /\ created < MaxWindows
            /\ windows' = [windows EXCEPT ![owner] = InteractiveNotebookUris[created + 1]]
            /\ created' = created + 1
            /\ fired' = [NoEvent EXCEPT !.event = "getOrCreate",
                                        !.notebook = InteractiveNotebookUris[created + 1]]
    /\ UNCHANGED <<executionCountTracker, activeEditor, activeTextEditor, kernelNotebooks,
                   pending, lastOrderSeen, disposed,
                   hoverVars>>

\* IInteractiveWindow.dispose: the provider forgets the window.
DisposeKeepsWindow(owner) ==
    /\ ProviderGet(owner) # Undefined
    /\ windows' = windows
    /\ kernelNotebooks' = kernelNotebooks \ {ProviderGet(owner)}
    /\ disposed' = disposed \cup {ProviderGet(owner)}
    /\ fired' = NoEvent
    /\ UNCHANGED <<executionCountTracker, activeEditor, activeTextEditor, created, pending,
                   lastOrderSeen,
                   hoverVars>>
Dispose(owner) ==
    /\ ProviderGet(owner) # Undefined
    /\ windows' = [windows EXCEPT ![owner] = Undefined]
    /\ kernelNotebooks' = kernelNotebooks \ {ProviderGet(owner)}
    /\ disposed' = disposed \cup {ProviderGet(owner)}
    /\ fired' = NoEvent
    /\ UNCHANGED <<executionCountTracker, activeEditor, activeTextEditor, created, pending,
                   lastOrderSeen,
                   hoverVars>>

\* The kernel of an interactive window's notebook document starts: from now on
\* kernelProvider.get(document).notebook is defined.
KernelStarted(notebookUri) ==
    /\ \E o \in Owners : windows[o] = notebookUri
    /\ notebookUri \notin kernelNotebooks
    /\ kernelNotebooks' = kernelNotebooks \cup {notebookUri}
    /\ fired' = NoEvent
    /\ UNCHANGED <<executionCountTracker, activeEditor, activeTextEditor, windows, created,
                   pending, lastOrderSeen, disposed,
                   hoverVars>>

\* ------------------------------------------------------------------ Spec
\* NotebookWatcher and what it reads: cell and kernel events, the notebook
\* editors, the active text editor and the interactive window of a document.
Next ==
    \/ \E notebook \in Resources \cup {OtherNotebook}, state \in {Idle, Executing},
          order \in ExecutionOrders \cup {UndefinedNumber} :
            CellExecutionStateChanged(notebook, state, order)
    \/ \E state \in {executed, restarted}, resource \in Resources :
            KernelStateChange(state, resource)
    \/ \E resource \in Resources : DidRestartKernel(resource)
    \/ ResumeContinuation
    \/ \E editor \in Editors : notebookEditorClosed(editor)
    \/ \E editor \in Editors \cup {NoEditor} : ActiveNotebookEditorChanged(editor)
    \/ \E document \in TextDocuments \cup {Undefined} : ActiveTextEditorChanged(document)
    \/ \E owner \in TextDocuments : GetOrCreate(owner)
    \/ \E notebookUri \in InteractiveUris : KernelStarted(notebookUri)

Spec == Init /\ [][Next]_vars

\* The interactive window provider through its windows' lives, with the editors
\* that select the active window.
ProviderNext ==
    \/ \E owner \in Owners : GetOrCreate(owner)
    \/ \E owner \in Owners : Dispose(owner)
    \/ \E notebookUri \in InteractiveUris : KernelStarted(notebookUri)
    \/ \E document \in TextDocuments \cup {Undefined} : ActiveTextEditorChanged(document)
    \/ \E editor \in Editors \cup {NoEditor} : ActiveNotebookEditorChanged(editor)

ProviderSpec == Init /\ [][ProviderNext]_vars

\* NotebookWatcher when every event is delivered in a job of its own: the
\* microtask queue is drained before the next event arrives, so that no handler
\* runs between another handler's await and its continuation.
SerialNext ==
    \/ \E notebook \in Resources \cup {OtherNotebook}, state \in {Idle, Executing},
          order \in ExecutionOrders \cup {UndefinedNumber} :
            pending = <<>> /\ CellExecutionStateChanged(notebook, state, order)
    \/ \E state \in {executed, restarted}, resource \in Resources :
            pending = <<>> /\ KernelStateChange(state, resource)
    \/ \E resource \in Resources : pending = <<>> /\ DidRestartKernel(resource)
    \/ \E editor \in Editors : pending = <<>> /\ notebookEditorClosed(editor)
    \/ \E editor \in Editors \cup {NoEditor} :
            pending = <<>> /\ ActiveNotebookEditorChanged(editor)
    \/ \E document \in TextDocuments \cup {Undefined} :
            pending = <<>> /\ ActiveTextEditorChanged(document)
    \/ \E owner \in TextDocuments : pending = <<>> /\ GetOrCreate(owner)
    \/ \E notebookUri \in InteractiveUris : pending = <<>> /\ KernelStarted(notebookUri)
    \/ ResumeContinuation

SerialSpec == Init /\ [][SerialNext]_vars

\* HoverProvider as an execution logger.
PreExecuteNext ==
    \/ \E file \in CellFiles, silent \in BOOLEAN, registerThrows \in BOOLEAN :
            PreExecute(file, silent, registerThrows)
    \/ OnKernelRestarted

PreExecuteSpec == Init /\ [][PreExecuteNext]_vars

\* HoverProvider as a hover provider.  A timer of the event loop that is due
\* fires: each call's clock is weakly fair.
HoverNext ==
    \/ \E id \in 1..MaxHovers : ProvideHover(id)
    \/ \E id \in 1..MaxHovers : Tick(id)
    \/ \E id \in 1..MaxHovers, outcome \in {"hover", "null", "rejected"} :
            LookupSettles(id, outcome)

HoverSpec == Init /\ [][HoverNext]_vars /\ \A id \in 1..MaxHovers : WF_vars(Tick(id))

\* ================================================================== claims
\* The tracked count of a uri, as a reader of the tracker sees it.
TrackedCount(u) == getExecutionCount(u)

\* u is the active notebook: the active notebook editor's file, or the notebook
\* of the interactive window of the active text editor's document.
IsActiveNotebook(u) ==
    \/ activeEditor # NoEditor /\ NormCase(activeEditor.file) = NormCase(u)
    \/ /\ activeTextEditor # Undefined
       /\ windows[activeTextEditor] # Undefined
       /\ NormCase(windows[activeTextEditor]) = NormCase(u)

\* C1: the tracker mirrors the last execution order seen per uri: for every uri
\* the tracked count is the order carried by the most recent cell-went-idle
\* event of a Jupyter notebook with that uri since its last restart or close,
\* whatever number that order is, and the uri has no entry if there was none.
TrackerMirrorsLastOrderSeen ==
    \A u \in Resources : TrackedCount(u) = lastOrderSeen[NormCase(u)]

\* C2: every change of the value of activeNotebook that a change of the active
\* notebook editor or of the active text editor causes comes with a firing of
\* onDidChangeActiveNotebook.
ActiveNotebookChangeIsAnnounced ==
    [][(/\ activeNotebook' # activeNotebook
        /\ activeEditor' # activeEditor \/ activeTextEditor' # activeTextEditor)
       => fired'.event = "onDidChangeActiveNotebook"]_vars

\* C3: onDidExecuteActiveNotebook fires for a cell-went-idle event exactly when
\* the event carries an execution order and its notebook is the active one; the
\* fired executionCount is the event's order; an execution on a notebook that
\* is not active never fires it.  The firing is the continuation the event
\* leaves in the queue, and every firing is such a continuation resuming.
ExecuteFiresExactlyForActiveNotebook ==
    [][/\ \A nb \in Resources, order \in ExecutionOrders \cup {UndefinedNumber} :
            CellExecutionStateChanged(nb, Idle, order) =>
                IF order # UndefinedNumber /\ IsActiveNotebook(nb)
                THEN pending' = Append(pending,
                        [op |-> "execute", resource |-> nb, order |-> order, active |-> TRUE])
                ELSE \/ pending' = pending
                     \/ /\ pending' = Append(pending, pending'[Len(pending')])
                        /\ resume(pending'[Len(pending')]) = NoEvent
       /\ ResumeContinuation /\ Head(pending).op = "execute" /\ Head(pending).active =>
            /\ fired'.event = "onDidExecuteActiveNotebook"
            /\ fired'.executionCount = Head(pending).order
       /\ fired'.event = "onDidExecuteActiveNotebook" =>
            ResumeContinuation /\ Head(pending).op = "execute" /\ Head(pending).active
      ]_vars

\* C4: a cell-went-idle event with execution order n on a Jupyter notebook that
\* is not the active one still sets the tracked count of its uri to n, and when
\* an editor on a file becomes the active one, the event fired and
\* activeNotebookExecutionCount report the last order seen for that file.
InactiveExecutionIsTracked ==
    [][/\ \A nb \in Resources, order \in ExecutionOrders :
            CellExecutionStateChanged(nb, Idle, order) /\ ~IsActiveNotebook(nb) =>
                TrackedCount(nb)' = order
       /\ \A editor \in Editors :
            ActiveNotebookEditorChanged(editor) =>
                /\ fired'.event = "onDidChangeActiveNotebook"
                /\ fired'.executionCount = lastOrderSeen[NormCase(editor.file)]
                /\ activeNotebookExecutionCount' = lastOrderSeen[NormCase(editor.file)]
      ]_vars

\* The document activeNotebookExecutionCount reports on: the active notebook
\* editor's file or, without an active editor, the active interactive
\* window's notebook.
ActiveDocument ==
    CASE activeEditor # NoEditor -> activeEditor.file
      [] activeEditor = NoEditor /\ activeTextEditor # Undefined -> windows[activeTextEditor]
      [] OTHER -> Undefined

\* C5: a kernel restart of a resource, from either source, removes the tracked
\* count of the resource whether or not it is active and fires nothing yet; its
\* continuation later fires onDidRestartActiveNotebook if and only if the
\* resource was the active notebook, and nothing else fires that event; as long
\* as no execution of a document is seen after its restart,
\* activeNotebookExecutionCount is undefined for it.
RestartDeletesThenNotifiesActive ==
    [][/\ \A r \in Resources :
            DidRestartKernel(r) \/ KernelStateChange(restarted, r) =>
                /\ TrackedCount(r)' = UndefinedNumber
                /\ fired' = NoEvent
                /\ pending' = Append(pending,
                        [op |-> "restart", resource |-> Undefined, order |-> UndefinedNumber,
                         active |-> IsActiveNotebook(r)])
       /\ ResumeContinuation /\ Head(pending).op = "restart" =>
            (fired'.event = "onDidRestartActiveNotebook" <=> Head(pending).active)
       /\ fired'.event = "onDidRestartActiveNotebook" =>
            ResumeContinuation /\ Head(pending).op = "restart"
       /\ (ActiveDocument' # Undefined /\ lastOrderSeen'[NormCase(ActiveDocument')] = UndefinedNumber)
            => activeNotebookExecutionCount' = UndefinedNumber
      ]_vars

\* C5 witness: the restart of the active editor's notebook has been announced
\* and its count is gone while another document is still tracked.
RestartOfActiveNotebookAnnounced ==
    /\ fired.event = "onDidRestartActiveNotebook"
    /\ activeEditor # NoEditor
    /\ TrackedCount(activeEditor.file) = UndefinedNumber
    /\ lastOrderSeen[NormCase(activeEditor.file)] = UndefinedNumber
    /\ executionCountTracker # <<>>

\* C6: activeNotebookExecutionCount is the tracked count of the active notebook
\* editor's file if there is an active notebook editor (undefined when that
\* file has no entry, whatever the interactive window has); otherwise the
\* tracked count of the notebook of the active text editor's interactive
\* window if there is one; otherwise undefined.
ActiveCountPrefersEditor ==
    activeNotebookExecutionCount =
        CASE activeEditor # NoEditor -> TrackedCount(activeEditor.file)
          [] /\ activeEditor = NoEditor
             /\ activeTextEditor # Undefined
             /\ windows[activeTextEditor] # Undefined -> TrackedCount(windows[activeTextEditor])
          [] OTHER -> UndefinedNumber

\* C6 witness: an active editor whose file has no entry, beside an active
\* interactive window that has one.
EditorWithoutCountBesideCountedWindow ==
    /\ activeEditor # NoEditor
    /\ TrackedCount(activeEditor.file) = UndefinedNumber
    /\ activeTextEditor # Undefined
    /\ windows[activeTextEditor] # Undefined
    /\ TrackedCount(windows[activeTextEditor]) # UndefinedNumber

\* C7: closing a notebook editor removes its file from the tracker, and an
\* editor that becomes active on a file of which no execution was seen since
\* its close (or restart) is announced without an executionCount.
ClosedEditorLosesCount ==
    [][/\ \A editor \in Editors :
            notebookEditorClosed(editor) =>
                /\ TrackedCount(editor.file)' = UndefinedNumber
                /\ Matching(editor.file)' = {}
       /\ \A editor \in Editors :
            (ActiveNotebookEditorChanged(editor)
             /\ lastOrderSeen[NormCase(editor.file)] = UndefinedNumber) =>
                /\ fired'.event = "onDidChangeActiveNotebook"
                /\ fired'.notebook = editor.notebook
                /\ fired'.executionCount = UndefinedNumber
      ]_vars

\* C7 witness: an editor became active on a file without a count while the
\* tracker holds the count of another document.
EditorAnnouncedWithoutCount ==
    /\ fired.event = "onDidChangeActiveNotebook"
    /\ activeEditor # NoEditor
    /\ fired.notebook = activeEditor.notebook
    /\ fired.executionCount = UndefinedNumber
    /\ lastOrderSeen[NormCase(activeEditor.file)] = UndefinedNumber
    /\ executionCountTracker # <<>>

\* C10: a disposed interactive window is no longer a window of the provider:
\* what getOrCreate returns after the dispose is a window of the provider whose
\* notebookUri is that of no disposed window.
DisposedWindowIsNotReturned ==
    /\ \A o \in Owners : windows[o] \notin disposed
    /\ fired.event = "getOrCreate" =>
            /\ fired.notebook \notin disposed
            /\ \E o \in Owners : windows[o] = fired.notebook

\* C10 witness: getOrCreate(undefined) returned the second window after the
\* first one was disposed.
SecondWindowAfterDispose ==
    /\ fired.event = "getOrCreate"
    /\ fired.notebook = InteractiveNotebookUris[2]
    /\ windows[Undefined] = fired.notebook
    /\ disposed = {InteractiveNotebookUris[1]}

HoverSettlesAsFirstOfTimeoutAndLookup ==
    /\ [](\A id \in 1..MaxHovers :
            LET h == hovers[id]
            IN  h.state = "running" =>
                    /\ h.first = "none" => h.result = "pending"
                    /\ h.first = "timeout" => h.result = "null"
                    /\ h.first = "lookup" => h.result = h.lookup
                    /\ h.timeout = "null" <=> h.elapsed >= SleepMs)
    /\ \A id \in 1..MaxHovers :
            (hovers[id].state = "running") ~> (hovers[id].result # "pending")

\* C9 witness: the timeout settled a call whose lookup settled only later.
TimeoutWonBeforeLookupSettled ==
    \E id \in 1..MaxHovers :
        /\ hovers[id].first = "timeout"
        /\ hovers[id].result = "null"
        /\ hovers[id].lookup = "hover"

\* C11: every change of the active notebook editor fires
\* onDidChangeActiveNotebook, once; for a defined editor the event carries the
\* editor's notebook and carries the count of the first tracker entry for the
\* editor's file if the tracker has such an entry and no count if it has none;
\* for an undefined editor it carries neither; the tracker is left unchanged.
ActiveEditorChangeIsAnnouncedOnce ==
    [][/\ \A editor \in Editors \cup {NoEditor} :
            ActiveNotebookEditorChanged(editor) =>
                /\ fired'.event = "onDidChangeActiveNotebook"
                /\ fired'.notebook = editor.notebook
                /\ fired'.executionCount =
                        IF editor # NoEditor /\ Matching(editor.file) # {}
                        THEN executionCountTracker[First(Matching(editor.file))].executionCount
                        ELSE UndefinedNumber
                /\ editor # NoEditor /\ Matching(editor.file) # {} =>
                        fired'.executionCount # UndefinedNumber
                /\ executionCountTracker' = executionCountTracker
       /\ activeEditor' # activeEditor => fired'.event = "onDidChangeActiveNotebook"
       /\ fired'.event = "onDidChangeActiveNotebook" => activeEditor' # activeEditor
      ]_vars

\* C11 witness: an editor without a notebook became active on a file that has
\* a count, and the event carried the count and no notebook.
EditorAnnouncedWithCount ==
    /\ fired.event = "onDidChangeActiveNotebook"
    /\ activeEditor # NoEditor
    /\ fired.notebook = Undefined
    /\ fired.executionCount # UndefinedNumber
    /\ fired.executionCount = TrackedCount(activeEditor.file)
    /\ Len(executionCountTracker) = 2

\* C12: whenever onDidExecuteActiveNotebook has fired with executionCount c, a
\* listener that reads activeNotebookExecutionCount at that moment obtains c,
\* also when a notebook editor and an interactive window are both active.
ExecutedCountIsActiveCount ==
    fired.event = "onDidExecuteActiveNotebook" =>
        activeNotebookExecutionCount = fired.executionCount

\* C13: under any interleaving of the handlers at their awaits, when
\* onDidExecuteActiveNotebook fires for an execution of a resource with count c
\* the tracker holds c for that resource.
FiredCountIsStillTracked ==
    [][(ResumeContinuation /\ fired'.event = "onDidExecuteActiveNotebook") =>
            TrackedCount(Head(pending).resource) = Head(pending).order
      ]_vars

\* The interactive window's notebook is what activeNotebook returns.
ReturnsWindowNotebook ==
    /\ ~(activeEditor # NoEditor /\ activeEditor.notebook # Undefined)
    /\ getActiveInteractiveWindowNotebook # Undefined

\* C14: activeNotebook and activeNotebookExecutionCount describe the same
\* document: when activeNotebook returns the notebook of the active interactive
\* window the count is the tracked count of that window's notebookUri, and when
\* it returns the active editor's notebook the count is that of the editor's
\* file.
ActiveNotebookAndCountAgree ==
    /\ ReturnsWindowNotebook =>
            activeNotebookExecutionCount = TrackedCount(getActiveInteractiveWindow)
    /\ (activeEditor # NoEditor /\ activeEditor.notebook # Undefined) =>
            activeNotebookExecutionCount = TrackedCount(activeEditor.file)

\* C15: the tracker holds at most one entry per uri, uris compared with
\* arePathsSame.
OneEntryPerUri ==
    \A i, j \in DOMAIN executionCountTracker :
        arePathsSame(executionCountTracker[i].uri, executionCountTracker[j].uri) => i = j

\* C15 witness: an execution reported under one spelling of a file's path has
\* updated the entry pushed under the other spelling, beside another entry.
EntryUpdatedThroughOtherSpelling ==
    /\ pending # <<>>
    /\ pending[Len(pending)].op = "execute"
    /\ pending[Len(pending)].resource = "/nb/A.ipynb"
    /\ Len(executionCountTracker) = 2
    /\ \E i \in DOMAIN executionCountTracker :
            /\ executionCountTracker[i].uri = "/nb/a.ipynb"
            /\ executionCountTracker[i].executionCount = pending[Len(pending)].order

====
